---- MODULE Spec2Model ----
(***************************************************************************)
(* Model of the PDF page-segmentation tools of pythonBusinessTools:        *)
(*   src/businessTools.py                       (batch drivers, splitters) *)
(*   src/singlePDF_MultiExtraction_PartyName.py (standalone splitter)      *)
(*                                                                         *)
(* Strings are sequences of one-character strings, "\n" is the line break. *)
(* Page numbers and line indices are 0-based as in the Python source; the  *)
(* element with Python index i of a sequence s is s[i + 1].                *)
(***************************************************************************)
EXTENDS Integers, Sequences, FiniteSets, TLC

\* ------------------------------------------------------------------------
\* Bounds of the model
\* ------------------------------------------------------------------------
MaxFiles == 2
MaxPages == 3
\* the longest string given to the sanitizers
MaxLen == 2
\* the most lines of a text given to the field extractors
MaxLines == 3
\* the most messages in the log of a session of profile and field events
MaxLog == 3

\* ------------------------------------------------------------------------
\* Python values
\* ------------------------------------------------------------------------
\* Python's None; no string of the model equals it (characters have length 1)
None == << "None" >>

\* truth value of "if x:" for x a str or None
Truthy(x) == x # None /\ x # << >>

Whitespace == {" ", "\n", "\t"}
Digits == {"0", "1", "2", "3", "4", "5", "6", "7", "8", "9"}

\* str.strip()
RECURSIVE lstrip(_)
lstrip(s) ==
    IF s # << >> /\ s[1] \in Whitespace THEN lstrip(Tail(s)) ELSE s

RECURSIVE rstrip(_)
rstrip(s) ==
    IF s # << >> /\ s[Len(s)] \in Whitespace
    THEN rstrip(SubSeq(s, 1, Len(s) - 1))
    ELSE s

strip(s) == rstrip(lstrip(s))

\* str.isdigit()
isdigit(s) == s # << >> /\ \A i \in 1..Len(s) : s[i] \in Digits

\* "sub in s" for strings
Contains(sub, s) ==
    \E i \in 0..(Len(s) - Len(sub)) : SubSeq(s, i + 1, i + Len(sub)) = sub

\* str.split('\n')
RECURSIVE split_nl(_)
split_nl(s) ==
    IF \A i \in 1..Len(s) : s[i] # "\n"
    THEN << s >>
    ELSE LET i == CHOOSE k \in 1..Len(s) :
                     s[k] = "\n" /\ \A m \in 1..(k - 1) : s[m] # "\n"
         IN  << SubSeq(s, 1, i - 1) >> \o split_nl(SubSeq(s, i + 1, Len(s)))

\* str.splitlines(): no line for the empty string, none after a final "\n"
splitlines(s) ==
    IF s = << >>
    THEN << >>
    ELSE LET l == split_nl(s)
         IN  IF l[Len(l)] = << >> THEN SubSeq(l, 1, Len(l) - 1) ELSE l

\* the smallest element of a non-empty set of integers
Min(S) == CHOOSE x \in S : \A y \in S : x <= y

\* ------------------------------------------------------------------------
\* Field extraction (src/businessTools.py:47-92)
\* ------------------------------------------------------------------------
\* extract_party_name_dynamic with the break after the inner "if": only the
\* first line that contains the keyword is looked at
extract_party_name_first_line(text, party_keyword, offset) ==
    LET lines == splitlines(text)
        kw    == { i \in 0..(Len(lines) - 1) :
                     Contains(party_keyword, lines[i + 1]) }
    IN  IF kw = {} THEN None
        ELSE IF 0 <= Min(kw) + offset /\ Min(kw) + offset < Len(lines)
             THEN strip(lines[Min(kw) + offset + 1])
             ELSE None

\* extract_party_name_dynamic: the loop leaves at the first line that
\* contains the keyword AND whose index + offset is inside the line range
extract_party_name_dynamic(text, party_keyword, offset) ==
    LET lines == splitlines(text)
        hits  == { i \in 0..(Len(lines) - 1) :
                     /\ Contains(party_keyword, lines[i + 1])
                     /\ 0 <= i + offset
                     /\ i + offset < Len(lines) }
    IN  IF hits = {} THEN None ELSE strip(lines[Min(hits) + offset + 1])

\* A regular expression of the form  literal* \s* (\d+)  with literals and
\* \s* in any order before the single capturing group, as the two patterns
\* of the profiles are: a sequence of atoms
Lit(c) == [k |-> "lit", c |-> c]
WsStar == [k |-> "ws", c |-> ""]
DigitsGroup == [k |-> "grp", c |-> ""]
AnyChar == [k |-> "any", c |-> ""]

\* the length of the longest run of characters of set S at s[p+1..]
RECURSIVE RunLen(_, _, _)
RunLen(s, p, S) ==
    IF p < Len(s) /\ s[p + 1] \in S THEN 1 + RunLen(s, p + 1, S) ELSE 0

\* match atoms a.. of regex at position p (0-based) of s: the captured group
\* or None.  \s* and \d+ are greedy; in the patterns modelled no atom that
\* follows them can match what they consume, so no backtracking is needed
RECURSIVE match_at(_, _, _, _, _)
match_at(regex, a, s, p, grp) ==
    IF a > Len(regex)
    THEN grp
    ELSE LET atom == regex[a]
         IN  CASE atom.k = "lit" ->
                    IF p < Len(s) /\ s[p + 1] = atom.c
                    THEN match_at(regex, a + 1, s, p + 1, grp)
                    ELSE None
               [] atom.k = "any" ->
                    IF p < Len(s)
                    THEN match_at(regex, a + 1, s, p + 1, grp)
                    ELSE None
               [] atom.k = "ws" ->
                    match_at(regex, a + 1, s, p + RunLen(s, p, Whitespace), grp)
               [] OTHER ->
                    LET n == RunLen(s, p, Digits)
                    IN  IF n = 0
                        THEN None
                        ELSE match_at(regex, a + 1, s, p + n,
                                      SubSeq(s, p + 1, p + n))

\* re.search(regex, s) followed by match.group(1): the leftmost match
re_search(regex, s) ==
    LET starts == { p \in 0..Len(s) : match_at(regex, 1, s, p, None) # None }
    IN  IF starts = {} THEN None ELSE match_at(regex, 1, s, Min(starts), None)

\* r"(\d+)"
DigitRun == << DigitsGroup >>

\* what compiling a pattern gives when re raises re.error
ReError == << [k |-> "error", c |-> ""] >>

\* the characters that are not literals in a pattern
MetaChars == { "(", ")", "[", "*", "+", "?", "\\" }

StartsWith(s, prefix) ==
    Len(prefix) <= Len(s) /\ SubSeq(s, 1, Len(prefix)) = prefix

\* The compilation re.search does of its pattern, for patterns made of
\* literal characters, ".", "\.", "\s*" and "(\d+)".  A metacharacter in
\* any other place is taken as an error; of such patterns the model only
\* uses one with an unclosed parenthesis, which re rejects.
RECURSIVE re_compile(_)
re_compile(pattern) ==
    IF pattern = << >>
    THEN << >>
    ELSE LET n == CASE StartsWith(pattern, << "\\", "s", "*" >>) -> 3
                    [] StartsWith(pattern, << "(", "\\", "d", "+", ")" >>) -> 5
                    [] StartsWith(pattern, << "\\", "." >>) -> 2
                    [] OTHER -> 1
             atom == CASE n = 3 -> WsStar
                       [] n = 5 -> DigitsGroup
                       [] n = 2 -> Lit(".")
                       [] pattern[1] = "." -> AnyChar
                       [] OTHER -> Lit(pattern[1])
             rest == re_compile(SubSeq(pattern, n + 1, Len(pattern)))
         IN  IF (n = 1 /\ pattern[1] \in MetaChars) \/ rest = ReError
             THEN ReError
             ELSE << atom >> \o rest

\* int(s): the value, or ok = FALSE where int raises ValueError
DigitSeq == << "0", "1", "2", "3", "4", "5", "6", "7", "8", "9" >>

RECURSIVE digits_value(_)
digits_value(s) ==
    IF s = << >>
    THEN 0
    ELSE 10 * digits_value(SubSeq(s, 1, Len(s) - 1))
         + (CHOOSE d \in 0..9 : DigitSeq[d + 1] = s[Len(s)])

int_parse(s) ==
    LET t == strip(s)
        signed == t # << >> /\ t[1] \in { "-", "+" }
        body == IF signed THEN Tail(t) ELSE t
    IN  IF isdigit(body)
        THEN [ok |-> TRUE,
              value |-> IF signed /\ t[1] = "-" THEN 0 - digits_value(body)
                        ELSE digits_value(body)]
        ELSE [ok |-> FALSE, value |-> 0]

\* next_line_scan without the break: goes on after a candidate without
\* digits
RECURSIVE next_line_scan_unbounded(_, _)
next_line_scan_unbounded(lines, j) ==
    IF j >= Len(lines)
    THEN None
    ELSE LET candidate == strip(lines[j + 1])
         IN  IF candidate = << ":" >> \/ candidate = << >>
             THEN next_line_scan_unbounded(lines, j + 1)
             ELSE IF isdigit(candidate)
                  THEN candidate
                  ELSE IF re_search(DigitRun, candidate) # None
                       THEN re_search(DigitRun, candidate)
                       ELSE next_line_scan_unbounded(lines, j + 1)

\* the scan of the lines after keyword line i (src/businessTools.py:77-91):
\* the digits of the first candidate that is neither empty nor ":", or None
RECURSIVE next_line_scan(_, _)
next_line_scan(lines, j) ==
    IF j >= Len(lines)
    THEN None
    ELSE LET candidate == strip(lines[j + 1])
         IN  IF candidate = << ":" >> \/ candidate = << >>
             THEN next_line_scan(lines, j + 1)
             ELSE IF isdigit(candidate)
                  THEN candidate
                  ELSE re_search(DigitRun, candidate)

\* the for loop of extract_order_id_dynamic from line i on: a keyword line
\* returns when the pattern or the scan below it yields a value, otherwise
\* the loop goes on with the next line
RECURSIVE order_id_from(_, _, _, _)
order_id_from(lines, i, order_keyword, regex_pattern) ==
    IF i >= Len(lines)
    THEN None
    ELSE IF Contains(order_keyword, lines[i + 1])
         THEN LET m == re_search(regex_pattern, lines[i + 1])
                  n == next_line_scan(lines, i + 1)
              IN  IF m # None THEN m
                  ELSE IF n # None THEN n
                  ELSE order_id_from(lines, i + 1, order_keyword, regex_pattern)
         ELSE order_id_from(lines, i + 1, order_keyword, regex_pattern)

extract_order_id_dynamic(text, order_keyword, regex_pattern) ==
    order_id_from(splitlines(text), 0, order_keyword, regex_pattern)

\* ------------------------------------------------------------------------
\* File names (src/businessTools.py:120-124)
\* ------------------------------------------------------------------------
InvalidChars == {"<", ">", ":", "\"", "/", "\\", "|", "?", "*"}

\* re.sub(..., "", filename, count=1): only the first invalid character goes
RECURSIVE sanitize_filename_first(_)
sanitize_filename_first(filename) ==
    IF filename = << >> THEN << >>
    ELSE IF filename[1] \in InvalidChars THEN Tail(filename)
    ELSE << filename[1] >> \o sanitize_filename_first(Tail(filename))

\* re.sub(r'[<>:"/\\|?*]', "", filename)
sanitize_filename(filename) ==
    SelectSeq(filename, LAMBDA c : c \notin InvalidChars)

\* sanitize_name of the utility script: re.sub(r'[<>:"/\\|?*]', '_', filename)
sanitize_name(filename) ==
    [i \in 1..Len(filename) |->
       IF filename[i] \in InvalidChars THEN "_" ELSE filename[i]]

DotPdf == << ".", "p", "d", "f" >>
DotTxt == << ".", "t", "x", "t" >>

\* ------------------------------------------------------------------------
\* Inputs of one run
\* ------------------------------------------------------------------------
\* the extraction options of the "Defaults" profile, as the texts of the
\* line edits
default_party_keyword == << "M", "/", "s", "." >>
default_party_offset == << "-", "1" >>
default_order_keyword == << "I", "D", " ", ":" >>
\* r"ID :\s*(\d+)"
default_order_regex ==
    << "I", "D", " ", ":", "\\", "s", "*", "(", "\\", "d", "+", ")" >>
\* the order options of the "Invoice Defaults" profile
invoice_order_keyword ==
    << "I", "n", "v", "o", "i", "c", "e", " ", "N", "o", "." >>
\* r"Invoice No\.\s*:\s*(\d+)"
invoice_order_regex ==
    << "I", "n", "v", "o", "i", "c", "e", " ", "N", "o", "\\", ".",
       "\\", "s", "*", ":", "\\", "s", "*", "(", "\\", "d", "+", ")" >>

\* texts typed into the offset and the pattern edits that do not parse
BadOffsetText == << "x" >>
BadRegexText == << "(", "\\", "d", "+" >>

\* what page.get_text("text") returns for the pages a document is made of
PageBlank == << >>
PagePlain == << "x", "\n" >>
PagePartyA == << "A", "\n", "M", "/", "s", ".", "\n" >>
PagePartyA1 ==
    << "A", "\n", "M", "/", "s", ".", "\n", "I", "D", " ", ":", "1", "\n" >>
PagePartyB2 ==
    << "B", "/", "\n", "M", "/", "s", ".", "\n",
       "I", "D", " ", ":", "\n", ":", "\n", "2", "\n" >>
PageOrder7 == << "I", "D", " ", ":", " ", "7", "\n" >>
\* only white space
PageSpace == << " ", "\n" >>
\* the line above the party keyword is blank; an order id is there
PageNoName3 ==
    << " ", "\n", "M", "/", "s", ".", "\n", "I", "D", " ", ":", "3", "\n" >>
PageTexts ==
    { PageBlank, PagePlain, PagePartyA, PagePartyA1, PagePartyB2, PageOrder7,
      PageSpace, PageNoName3 }

\* the pages the documents of a run are made of: for each operation the
\* pages that the operation tells apart
PagesFor(op) ==
    CASE op = "Extract Text from PDF" ->
           { PageBlank, PageSpace, PagePlain }
      [] op = "Extract by Order ID" ->
           { PagePartyA, PagePartyA1, PagePartyB2, PageOrder7, PageNoName3 }
      [] OTHER ->
           { PageBlank, PagePartyA, PagePartyB2, PageNoName3 }

\* what pytesseract.image_to_string returns for a rendered page
OcrTexts == { << >>, << "A", "\n", "M", "/", "s", ".", "\n" >> }

\* the entries os.listdir(input_dir) can return
FileA == << "a", ".", "p", "d", "f" >>
FileB == << "b", ".", "P", "D", "F" >>
FileN == << "n", ".", "t", "x", "t" >>
FileNames == { FileA, FileB, FileN }

\* the listings: sequences without repetition of at most MaxFiles names
Listings ==
    UNION { { l \in [1..n -> FileNames] :
                \A i, j \in 1..n : i # j => l[i] # l[j] } : n \in 0..MaxFiles }

\* the contents of output_dir when the run starts (initial_output_files)
InitialOutputs == { {}, { << "A" >> \o DotPdf } }

Operations == { "Split by Party Name", "Extract by Order ID",
                "Extract Text from PDF" }

\* str.lower() on the characters of file names
lower_char(c) ==
    CASE c = "P" -> "p" [] c = "D" -> "d" [] c = "F" -> "f" [] OTHER -> c

lower(s) == [i \in 1..Len(s) |-> lower_char(s[i])]

endswith(s, suffix) ==
    /\ Len(suffix) <= Len(s)
    /\ SubSeq(s, Len(s) - Len(suffix) + 1, Len(s)) = suffix

\* filename.lower().endswith(".pdf")
is_pdf(filename) == endswith(lower(filename), DotPdf)

\* os.path.splitext(name)[0] for a name with an extension
splitext_base(name) ==
    LET dots == { i \in 2..Len(name) : name[i] = "." }
    IN  IF dots = {} THEN name
        ELSE SubSeq(name, 1, (CHOOSE d \in dots : \A e \in dots : e <= d) - 1)

\* f"Error processing {pdf_path}: {str(e)}"
ErrorText(pdf_path) == << "Error processing " >> \o pdf_path

\* no exception was raised
NoException == [kind |-> "none", file |-> << >>]

\* range(start, end + 1) as a list
range(start, end) == [i \in 1..(end - start + 1) |-> start + i - 1]

\* ------------------------------------------------------------------------
\* State
\* ------------------------------------------------------------------------
VARIABLES
    operation,          \* operation_combo.currentText()
    listing,            \* os.listdir(input_dir)
    outDir,             \* the file names present in output_dir
    pc,                 \* where start_processing is
    file_idx,           \* position of the driver's loop in the listing
    messages,           \* the driver's local list messages / results
    result,             \* what the driver returned to start_processing
    exc,                \* the exception that left the driver
    log,                \* log_output
    openDocs,           \* source documents opened and not closed
    num_pages,          \* len(doc)
    page_num,           \* the page loop's index
    current_party,
    current_order_id,
    current_start_page,
    splits,             \* the spans of the current document
    span_idx,           \* position of the assembly loop in splits
    scanned,            \* per page of the current document: what was read
    saves,              \* per save of the current document: the target
    text,               \* extract_text_from_pdf's accumulator
    current_profile,    \* BusinessToolsUI.current_profile
    profile_combo,      \* profile_combo.currentText()
    party_keyword_edit, \* the texts of the four line edits
    party_offset_edit,
    order_keyword_edit,
    order_regex_edit,
    last_event,         \* the last event the window handled
    fn_arg,             \* the argument of a function applied on its own
    fn_res              \* and what it returned

vars == << operation, listing, outDir, pc, file_idx, messages, result, exc,
           log, openDocs, num_pages, page_num, current_party,
           current_order_id, current_start_page, splits, span_idx, scanned,
           saves, text, current_profile, profile_combo, party_keyword_edit,
           party_offset_edit, order_keyword_edit, order_regex_edit,
           last_event, fn_arg, fn_res >>

uiVars == << current_profile, profile_combo, party_keyword_edit,
             party_offset_edit, order_keyword_edit, order_regex_edit,
             last_event >>

fnVars == << fn_arg, fn_res >>

\* no event yet, no function applied
NoEvent == [kind |-> "none"]
NotApplied == [fn |-> "none"]

\* the window as __init__ and initUI leave it
InitWindow ==
    /\ current_profile = "Defaults"
    /\ profile_combo = "Defaults"
    /\ party_keyword_edit = default_party_keyword
    /\ party_offset_edit = default_party_offset
    /\ order_keyword_edit = default_order_keyword
    /\ order_regex_edit = default_order_regex
    /\ last_event = NoEvent

\* the state of a run before "Start Processing" is pressed
InitRun ==
    /\ operation \in Operations
    /\ listing \in Listings
    /\ outDir \in InitialOutputs
    /\ pc = "start"
    /\ file_idx = 0
    /\ messages = << >>
    /\ result = << >>
    /\ exc = NoException
    /\ log = << [kind |-> "Processing started...", file |-> << >>] >>
    /\ openDocs = {}
    /\ num_pages = 0
    /\ page_num = 0
    /\ current_party = None
    /\ current_order_id = None
    /\ current_start_page = 0
    /\ splits = << >>
    /\ span_idx = 0
    /\ scanned = << >>
    /\ saves = << >>
    /\ text = << >>

segVars == << num_pages, page_num, current_party, current_order_id,
              current_start_page, splits, span_idx, scanned, saves >>

\* a run started with the options of the "Defaults" profile
Init ==
    /\ InitRun
    /\ InitWindow
    /\ fn_arg = << >>
    /\ fn_res = NotApplied

\* the options start_processing reads from the line edits (lines 515-522)
party_keyword == strip(party_keyword_edit)
party_offset == int_parse(strip(party_offset_edit))
order_keyword == strip(order_keyword_edit)
order_regex == strip(order_regex_edit)

\* re.search(order_regex, line) raises re.error on a page: the pattern does
\* not compile and a line of the page contains the order keyword
regex_raises(t) ==
    /\ re_compile(order_regex) = ReError
    /\ \E i \in 1..Len(splitlines(t)) :
         Contains(order_keyword, splitlines(t)[i])

\* the entry the driver's loop is at
filename == listing[file_idx + 1]

Segmenting == operation \in { "Split by Party Name", "Extract by Order ID" }

\* ------------------------------------------------------------------------
\* The segmentation loops (src/businessTools.py:141-152, 181-198)
\* ------------------------------------------------------------------------
\* the loop variables as one record
SegState ==
    [current_party |-> current_party, current_order_id |-> current_order_id,
     current_start_page |-> current_start_page, splits |-> splits]

\* split_scan closing the open span at the marker page itself
split_scan_overlap(st, pn, party) ==
    IF Truthy(party)
    THEN [st EXCEPT
            !.splits = IF st.current_party # None
                       THEN Append(@, [start_page |-> st.current_start_page,
                                       end_page |-> pn,
                                       party |-> st.current_party])
                       ELSE @,
            !.current_party = party,
            !.current_start_page = pn]
    ELSE st

\* split_scan that opens a span only for a party other than the open one
split_scan_merge(st, pn, party) ==
    IF Truthy(party) /\ party # st.current_party
    THEN [st EXCEPT
            !.splits = IF st.current_party # None
                       THEN Append(@, [start_page |-> st.current_start_page,
                                       end_page |-> pn - 1,
                                       party |-> st.current_party])
                       ELSE @,
            !.current_party = party,
            !.current_start_page = pn]
    ELSE st

\* split_scan that takes every party other than None for a marker
split_scan_not_none(st, pn, party) ==
    IF party # None
    THEN [st EXCEPT
            !.splits = IF st.current_party # None
                       THEN Append(@, [start_page |-> st.current_start_page,
                                       end_page |-> pn - 1,
                                       party |-> st.current_party])
                       ELSE @,
            !.current_party = party,
            !.current_start_page = pn]
    ELSE st

\* one iteration of the page loop of split_pdf_by_party_name
split_scan(st, pn, party) ==
    IF Truthy(party)
    THEN [st EXCEPT
            !.splits = IF st.current_party # None
                       THEN Append(@, [start_page |-> st.current_start_page,
                                       end_page |-> pn - 1,
                                       party |-> st.current_party])
                       ELSE @,
            !.current_party = party,
            !.current_start_page = pn]
    ELSE st

\* split_final that appends the open span without testing current_party
split_final_always(st, n) ==
    [st EXCEPT !.splits = Append(@, [start_page |-> st.current_start_page,
                                     end_page |-> n - 1,
                                     party |-> st.current_party])]

\* "if current_party: splits.append(...)" after the loop
split_final(st, n) ==
    IF Truthy(st.current_party)
    THEN [st EXCEPT !.splits = Append(@, [start_page |-> st.current_start_page,
                                          end_page |-> n - 1,
                                          party |-> st.current_party])]
    ELSE st

\* extract_scan that keeps the last order id seen on any page
extract_scan_sticky(st, pn, party, order_id) ==
    IF Truthy(party) /\ Truthy(order_id)
    THEN [st EXCEPT
            !.splits = IF st.current_party # None
                       THEN Append(@, [start_page |-> st.current_start_page,
                                       end_page |-> pn - 1,
                                       party |-> st.current_party,
                                       order_id |-> st.current_order_id])
                       ELSE @,
            !.current_party = party,
            !.current_order_id = order_id,
            !.current_start_page = pn]
    ELSE IF Truthy(order_id)
         THEN [st EXCEPT !.current_order_id = order_id]
         ELSE st

\* one iteration of the page loop of extract_pdf_by_order_id
extract_scan(st, pn, party, order_id) ==
    IF Truthy(party) /\ Truthy(order_id)
    THEN [st EXCEPT
            !.splits = IF st.current_party # None
                       THEN Append(@, [start_page |-> st.current_start_page,
                                       end_page |-> pn - 1,
                                       party |-> st.current_party,
                                       order_id |-> st.current_order_id])
                       ELSE @,
            !.current_party = party,
            !.current_order_id = order_id,
            !.current_start_page = pn]
    ELSE st

extract_final(st, n) ==
    IF Truthy(st.current_party)
    THEN [st EXCEPT !.splits = Append(@, [start_page |-> st.current_start_page,
                                          end_page |-> n - 1,
                                          party |-> st.current_party,
                                          order_id |-> st.current_order_id])]
    ELSE st

\* the name a span is saved under (lines 158-159 and 204-205)
output_filename(span) ==
    IF operation = "Split by Party Name"
    THEN sanitize_filename(span.party) \o DotPdf
    ELSE sanitize_filename(span.party \o << "_" >> \o span.order_id) \o DotPdf

\* the summary a splitter returns (lines 164 and 210)
processed_message(name) ==
    [kind |-> IF operation = "Split by Party Name"
              THEN "Processed (Split by Party Name)"
              ELSE "Processed (Extract by Order ID)",
     file |-> name]

\* ------------------------------------------------------------------------
\* process_split_operation / process_extract_operation and the splitter
\* they call, step by step
\* ------------------------------------------------------------------------
\* start_processing up to the call of the driver: the output directory is
\* made, the options are read, the offset parses as an integer
start_accept ==
    /\ pc = "start"
    /\ party_offset.ok
    /\ pc' = "listdir"
    /\ UNCHANGED << uiVars, fnVars, operation, listing, outDir, file_idx, messages, result,
                    exc, log, openDocs, segVars, text >>

\* int() raises ValueError: the warning box, and start_processing returns
start_reject ==
    /\ pc = "start"
    /\ ~party_offset.ok
    /\ pc' = "rejected"
    /\ UNCHANGED << uiVars, fnVars, operation, listing, outDir, file_idx, messages, result,
                    exc, log, openDocs, segVars, text >>

\* the loop over os.listdir passes an entry that is no .pdf file
driver_skip ==
    /\ pc = "listdir"
    /\ file_idx < Len(listing)
    /\ ~is_pdf(filename)
    /\ file_idx' = file_idx + 1
    /\ UNCHANGED << uiVars, fnVars, operation, listing, outDir, pc, messages, result, exc, log,
                    openDocs, segVars, text >>

\* fitz.open(pdf_path) and the initialisation before the page loop
seg_open ==
    /\ pc = "listdir"
    /\ file_idx < Len(listing)
    /\ is_pdf(filename)
    /\ Segmenting
    /\ \E n \in 0..MaxPages : num_pages' = n
    /\ openDocs' = openDocs \cup {filename}
    /\ current_party' = None
    /\ current_order_id' = None
    /\ current_start_page' = 0
    /\ splits' = << >>
    /\ page_num' = 0
    /\ span_idx' = 0
    /\ scanned' = << >>
    /\ saves' = << >>
    /\ pc' = "scan"
    /\ UNCHANGED << uiVars, fnVars, operation, listing, outDir, file_idx, messages, result,
                    exc, log, text >>

\* fitz.open(pdf_path) raises: nothing catches it in the splitter or in the
\* driver, the driver's messages are lost with its frame
seg_open_fail ==
    /\ pc = "listdir"
    /\ file_idx < Len(listing)
    /\ is_pdf(filename)
    /\ Segmenting
    /\ exc' = [kind |-> "open", file |-> filename]
    /\ pc' = "raised"
    /\ UNCHANGED << uiVars, fnVars, operation, listing, outDir, file_idx, messages, result,
                    log, openDocs, segVars, text >>

\* one page of the loop: get_text, the field extractors, the span update.
\* The text of the page goes to the extractors as get_text returned it.
seg_page ==
    /\ pc = "scan"
    /\ page_num < num_pages
    /\ \E t \in PagesFor(operation) :
         LET party == extract_party_name_dynamic(t, party_keyword,
                                                 party_offset.value)
             order_id == IF operation = "Extract by Order ID"
                         THEN extract_order_id_dynamic(t, order_keyword,
                                                       re_compile(order_regex))
                         ELSE None
             st == IF operation = "Split by Party Name"
                   THEN split_scan(SegState, page_num, party)
                   ELSE extract_scan(SegState, page_num, party, order_id)
         IN  /\ operation = "Extract by Order ID" => ~regex_raises(t)
             /\ current_party' = st.current_party
             /\ current_order_id' = st.current_order_id
             /\ current_start_page' = st.current_start_page
             /\ splits' = st.splits
             /\ scanned' = Append(scanned, [text |-> t, fed |-> t,
                                            ocr_calls |-> 0, party |-> party,
                                            order_id |-> order_id])
    /\ page_num' = page_num + 1
    /\ UNCHANGED << uiVars, fnVars, operation, listing, outDir, pc, file_idx, messages, result,
                    exc, log, openDocs, num_pages, span_idx, saves, text >>

\* load_page or get_text raises on a page: the exception leaves the splitter
\* and the driver, doc.close() is not reached
seg_page_fail ==
    /\ pc = "scan"
    /\ page_num < num_pages
    /\ exc' = [kind |-> "page", file |-> filename]
    /\ pc' = "raised"
    /\ UNCHANGED << uiVars, fnVars, operation, listing, outDir, file_idx, messages, result,
                    log, openDocs, segVars, text >>

\* the order pattern does not compile: re.search raises re.error on the
\* first page with a line that contains the order keyword; the exception
\* leaves the splitter and the driver
seg_page_regex_error ==
    /\ pc = "scan"
    /\ page_num < num_pages
    /\ operation = "Extract by Order ID"
    /\ \E t \in PagesFor(operation) : regex_raises(t)
    /\ exc' = [kind |-> "regex", file |-> filename]
    /\ pc' = "raised"
    /\ UNCHANGED << uiVars, fnVars, operation, listing, outDir, file_idx, messages, result,
                    log, openDocs, segVars, text >>

\* the page loop is over: the span that is still open is appended
seg_scan_end ==
    /\ pc = "scan"
    /\ page_num = num_pages
    /\ splits' = (IF operation = "Split by Party Name"
                  THEN split_final(SegState, num_pages)
                  ELSE extract_final(SegState, num_pages)).splits
    /\ span_idx' = 0
    /\ pc' = "assemble"
    /\ UNCHANGED << uiVars, fnVars, operation, listing, outDir, file_idx, messages, result,
                    exc, log, openDocs, num_pages, page_num, current_party,
                    current_order_id, current_start_page, scanned, saves,
                    text >>

\* the record of one new_pdf.save: the span, the pages inserted into
\* new_pdf, the target, whether a file of that name was there, the outcome
save_record(span, k, ok) ==
    [span |-> k, pages |-> range(span.start_page, span.end_page),
     name |-> output_filename(span),
     existed |-> output_filename(span) \in outDir, ok |-> ok]

\* one span of the assembly loop: new_pdf.save(output_path) writes the file,
\* replacing a file of that name
seg_save ==
    /\ pc = "assemble"
    /\ span_idx < Len(splits)
    /\ saves' = Append(saves, save_record(splits[span_idx + 1], span_idx, TRUE))
    /\ outDir' = outDir \cup { output_filename(splits[span_idx + 1]) }
    /\ span_idx' = span_idx + 1
    /\ UNCHANGED << uiVars, fnVars, operation, listing, pc, file_idx, messages, result, exc,
                    log, openDocs, num_pages, page_num, current_party,
                    current_order_id, current_start_page, splits, scanned,
                    text >>

\* new_pdf.save(output_path) raises: the exception leaves the splitter and
\* the driver, the spans after this one are not reached, doc stays open
seg_save_fail ==
    /\ pc = "assemble"
    /\ span_idx < Len(splits)
    /\ saves' = Append(saves, save_record(splits[span_idx + 1], span_idx, FALSE))
    /\ exc' = [kind |-> "save", file |-> filename]
    /\ pc' = "raised"
    /\ UNCHANGED << uiVars, fnVars, operation, listing, outDir, file_idx, messages, result,
                    log, openDocs, num_pages, page_num, current_party,
                    current_order_id, current_start_page, splits, span_idx,
                    scanned, text >>

\* after the last span: doc.close(), the summary is returned and the driver
\* appends it and goes on with the next entry
seg_close ==
    /\ pc = "assemble"
    /\ span_idx = Len(splits)
    /\ openDocs' = openDocs \ {filename}
    /\ messages' = Append(messages, processed_message(filename))
    /\ file_idx' = file_idx + 1
    /\ pc' = "listdir"
    /\ UNCHANGED << uiVars, fnVars, operation, listing, outDir, result, exc, log, segVars,
                    text >>

\* ------------------------------------------------------------------------
\* process_text_extraction_operation, process_text_extraction and
\* extract_text_from_pdf, step by step
\* ------------------------------------------------------------------------
\* text = "" and fitz.open(pdf_path)
text_open ==
    /\ pc = "listdir"
    /\ file_idx < Len(listing)
    /\ is_pdf(filename)
    /\ operation = "Extract Text from PDF"
    /\ \E n \in 0..MaxPages : num_pages' = n
    /\ openDocs' = openDocs \cup {filename}
    /\ text' = << >>
    /\ page_num' = 0
    /\ scanned' = << >>
    /\ pc' = "text_pages"
    /\ UNCHANGED << uiVars, fnVars, operation, listing, outDir, file_idx, messages, result,
                    exc, log, current_party, current_order_id,
                    current_start_page, splits, span_idx, saves >>

\* fitz.open raises inside the try: the except clause makes the error
\* message the text of the document
text_open_fail ==
    /\ pc = "listdir"
    /\ file_idx < Len(listing)
    /\ is_pdf(filename)
    /\ operation = "Extract Text from PDF"
    /\ text' = ErrorText(filename)
    /\ page_num' = 0
    /\ num_pages' = 0
    /\ scanned' = << >>
    /\ pc' = "text_write"
    /\ UNCHANGED << uiVars, fnVars, operation, listing, outDir, file_idx, messages, result,
                    exc, log, openDocs, current_party, current_order_id,
                    current_start_page, splits, span_idx, saves >>

\* "if page_text.strip():" fails, the page goes to OCR, only when the
\* direct text has no character at all
needs_ocr_empty_only(page_text) == page_text = << >>

\* "if page_text.strip():" fails, the page goes to OCR
needs_ocr(page_text) == strip(page_text) = << >>

\* one page: its direct text when that is not blank, otherwise the text
\* recognised on the rendered page; fed is the text the page adds
text_page ==
    /\ pc = "text_pages"
    /\ page_num < num_pages
    /\ \E t \in PagesFor(operation) :
         IF ~needs_ocr(t)
         THEN /\ text' = text \o t
              /\ scanned' = Append(scanned, [text |-> t, fed |-> t,
                                             ocr_calls |-> 0, party |-> None,
                                             order_id |-> None])
         ELSE \E ocr_text \in OcrTexts :
                /\ text' = text \o ocr_text
                /\ scanned' = Append(scanned, [text |-> t, fed |-> ocr_text,
                                               ocr_calls |-> 1, party |-> None,
                                               order_id |-> None])
    /\ page_num' = page_num + 1
    /\ UNCHANGED << uiVars, fnVars, operation, listing, outDir, pc, file_idx, messages, result,
                    exc, log, openDocs, num_pages, current_party,
                    current_order_id, current_start_page, splits, span_idx,
                    saves >>

\* load_page, get_text, get_pixmap, Image.open or image_to_string raises:
\* the except clause replaces the text by the error message; doc.close() is
\* inside the try and is not reached
text_page_fail ==
    /\ pc = "text_pages"
    /\ page_num < num_pages
    /\ text' = ErrorText(filename)
    /\ pc' = "text_write"
    /\ UNCHANGED << uiVars, fnVars, operation, listing, outDir, file_idx, messages, result,
                    exc, log, openDocs, segVars >>

\* after the last page: doc.close()
text_pages_end ==
    /\ pc = "text_pages"
    /\ page_num = num_pages
    /\ openDocs' = openDocs \ {filename}
    /\ pc' = "text_write"
    /\ UNCHANGED << uiVars, fnVars, operation, listing, outDir, file_idx, messages, result,
                    exc, log, segVars, text >>

\* process_text_extraction writes the .txt file; the driver appends
\* (msg, text), of which the model keeps msg and whether text is the error
\* message
text_write ==
    /\ pc = "text_write"
    /\ outDir' = outDir \cup
                   { sanitize_filename(splitext_base(filename)) \o DotTxt }
    /\ messages' = Append(messages,
                          [kind |-> "Processed (Text Extraction)",
                           file |-> filename,
                           error |-> text = ErrorText(filename)])
    /\ file_idx' = file_idx + 1
    /\ pc' = "listdir"
    /\ UNCHANGED << uiVars, fnVars, operation, listing, result, exc, log, openDocs, segVars,
                    text >>

\* open(output_path, "w") or f.write raises: nothing catches it below
\* start_processing
text_write_fail ==
    /\ pc = "text_write"
    /\ exc' = [kind |-> "write", file |-> filename]
    /\ pc' = "raised"
    /\ UNCHANGED << uiVars, fnVars, operation, listing, outDir, file_idx, messages, result,
                    log, openDocs, segVars, text >>

\* ------------------------------------------------------------------------
\* The end of the driver and of start_processing
\* ------------------------------------------------------------------------
\* the listing is exhausted: return messages
driver_return ==
    /\ pc = "listdir"
    /\ file_idx = Len(listing)
    /\ result' = messages
    /\ pc' = "returned"
    /\ UNCHANGED << uiVars, fnVars, operation, listing, outDir, file_idx, messages, exc, log,
                    openDocs, segVars, text >>

\* start_processing logs the messages and the summary
ui_completed ==
    /\ pc = "returned"
    /\ log' = log \o result
                  \o << [kind |-> "Processing completed.", file |-> << >>] >>
    /\ pc' = "done"
    /\ UNCHANGED << uiVars, fnVars, operation, listing, outDir, file_idx, messages, result,
                    exc, openDocs, segVars, text >>

\* "except Exception as e" of start_processing
ui_except ==
    /\ pc = "raised"
    /\ log' = Append(log, [kind |-> "Error during processing",
                           file |-> exc.file])
    /\ pc' = "done"
    /\ UNCHANGED << uiVars, fnVars, operation, listing, outDir, file_idx, messages, result,
                    exc, openDocs, segVars, text >>

\* A Document that was not closed and that no running function refers to
\* any more may be closed by its finalizer, whenever the interpreter
\* collects it, or never
InUse(d) ==
    /\ pc \in { "scan", "assemble", "text_pages" }
    /\ d = filename

finalize_doc ==
    /\ \E d \in openDocs :
         /\ ~InUse(d)
         /\ openDocs' = openDocs \ {d}
    /\ UNCHANGED << uiVars, fnVars, operation, listing, outDir, pc, file_idx, messages, result,
                    exc, log, segVars, text >>

Next ==
    \/ start_accept
    \/ driver_skip
    \/ seg_open
    \/ seg_open_fail
    \/ seg_page
    \/ seg_page_fail
    \/ seg_scan_end
    \/ seg_save
    \/ seg_save_fail
    \/ seg_close
    \/ text_open
    \/ text_open_fail
    \/ text_page
    \/ text_page_fail
    \/ text_pages_end
    \/ text_write
    \/ text_write_fail
    \/ driver_return
    \/ ui_completed
    \/ ui_except
    \/ finalize_doc

Spec == Init /\ [][Next]_vars

\* ------------------------------------------------------------------------
\* Runs started with options that do not parse
\* ------------------------------------------------------------------------
InitConfig ==
    /\ InitRun
    /\ current_profile = "Custom"
    /\ profile_combo = "Custom"
    /\ party_keyword_edit = default_party_keyword
    /\ party_offset_edit \in { default_party_offset, BadOffsetText }
    /\ order_keyword_edit = default_order_keyword
    /\ order_regex_edit \in { default_order_regex, BadRegexText }
    /\ party_offset_edit = BadOffsetText \/ order_regex_edit = BadRegexText
    /\ last_event = NoEvent
    /\ fn_arg = << >>
    /\ fn_res = NotApplied

NextConfig ==
    \/ Next
    \/ start_reject
    \/ seg_page_regex_error

SpecConfig == InitConfig /\ [][NextConfig]_vars

\* an option that start_processing cannot turn into an integer or that re
\* cannot compile
ConfigurationError ==
    \/ ~party_offset.ok
    \/ re_compile(order_regex) = ReError

\* C11 (as claimed): in a run started with a configuration error no input
\* is opened, no output is written, no file is processed
C11_ConfigErrorRejectedFirst ==
    ConfigurationError =>
      /\ openDocs = {}
      /\ saves = << >>
      /\ messages = << >>

\* ------------------------------------------------------------------------
\* Properties of the batch run
\* ------------------------------------------------------------------------
\* a page carries a marker when the extractors found every field the
\* operation needs on it
IsMarker(page) ==
    IF operation = "Extract by Order ID"
    THEN Truthy(page.party) /\ Truthy(page.order_id)
    ELSE Truthy(page.party)

\* the pages (0-based) of the current document that carry a marker
MarkerPages == { p \in 0..(Len(scanned) - 1) : IsMarker(scanned[p + 1]) }

\* the spans of the current document are computed
SpansComputed == Segmenting /\ pc = "assemble"

\* C1: the spans of a document are ordered by start page, pairwise disjoint,
\* each with start <= end, each starting right after the one before; the
\* first starts at the first marker page, the last ends at the last page,
\* and the pages before the first marker are in no span
C1_SpansPartition ==
    SpansComputed =>
      /\ \A k \in 1..Len(splits) : splits[k].start_page <= splits[k].end_page
      /\ \A j, k \in 1..Len(splits) :
           j < k => /\ splits[j].start_page < splits[k].start_page
                    /\ splits[j].end_page < splits[k].start_page
      /\ \A k \in 1..(Len(splits) - 1) :
           splits[k + 1].start_page = splits[k].end_page + 1
      /\ (MarkerPages = {}) = (splits = << >>)
      /\ MarkerPages # {} =>
           /\ splits[1].start_page = Min(MarkerPages)
           /\ splits[Len(splits)].end_page = num_pages - 1
           /\ \A p \in 0..(Min(MarkerPages) - 1) :
                \A k \in 1..Len(splits) :
                  ~(splits[k].start_page <= p /\ p <= splits[k].end_page)

\* a document whose first page carries no marker and that has two spans
C1_Witness ==
    /\ SpansComputed
    /\ Len(splits) >= 2
    /\ splits[1].start_page > 0

\* C2 (as claimed): no save targets a name that is already in the
\* destination directory
C2_NoSaveOnExistingName ==
    \A k \in 1..Len(saves) : ~saves[k].existed

\* C3 (as claimed): when opening an input fails in a segmentation batch, the
\* failure is among the messages logged and so is every .pdf entry after
\* the one that failed
C3_OpenFailureDoesNotAbort ==
    (Segmenting /\ pc = "done" /\ exc.kind = "open") =>
      \A i \in 1..Len(listing) :
        (is_pdf(listing[i]) /\ i >= file_idx + 1) =>
          \E m \in 1..Len(log) : log[m].file = listing[i]

\* C4 (as claimed): the driver never ends by an exception
C4_NoExceptionEscapes == pc # "raised"

\* C5 (as claimed): when the save of a span fails, every span of the
\* document still gets its save and the failure is among the messages
C5_WriteFailureContinues ==
    (pc = "done" /\ \E k \in 1..Len(saves) : ~saves[k].ok) =>
      /\ \A k \in 1..Len(splits) :
           \E j \in 1..Len(saves) : saves[j].span = k - 1
      /\ \E m \in 1..Len(log) : log[m].file = filename

\* C6 (as claimed): never two source documents open, none open when the
\* driver turns to the next entry or when the run is over
C6_ScopedRelease ==
    /\ Cardinality(openDocs) <= 1
    /\ pc \in { "listdir", "returned", "raised", "done" } => openDocs = {}

\* C7 (as claimed): in the segmentation operations a page with blank direct
\* text is recognised once and the extractors get the recognised text
C7_OcrBeforeExtraction ==
    Segmenting =>
      \A p \in 1..Len(scanned) :
        strip(scanned[p].text) = << >> =>
          /\ scanned[p].ocr_calls = 1
          /\ scanned[p].fed \in OcrTexts

\* C8: in split_pdf_by_party_name every marker page starts a span of its
\* own, so there are as many spans as marker pages, also when consecutive
\* markers carry the same party
C8_MarkerAlwaysOpensSpan ==
    (SpansComputed /\ operation = "Split by Party Name") =>
      /\ Len(splits) = Cardinality(MarkerPages)
      /\ \A p \in MarkerPages :
           \E k \in 1..Len(splits) : splits[k].start_page = p

\* two consecutive spans with the same party
C8_Witness ==
    /\ SpansComputed
    /\ operation = "Split by Party Name"
    /\ \E k \in 1..(Len(splits) - 1) : splits[k].party = splits[k + 1].party

\* C10: the label of a span is what the extractors returned on its start
\* page: the party, and in party+order mode also the order id
C10_LabelFromStartPage ==
    SpansComputed =>
      \A k \in 1..Len(splits) :
        LET first == scanned[splits[k].start_page + 1]
        IN  /\ splits[k].party = first.party
            /\ operation = "Extract by Order ID" =>
                 splits[k].order_id = first.order_id

\* a span of party+order mode with a later page that yields an order id
\* other than the span's
C10_Witness ==
    /\ SpansComputed
    /\ operation = "Extract by Order ID"
    /\ \E k \in 1..Len(splits) :
         \E p \in (splits[k].start_page + 1)..splits[k].end_page :
           /\ Truthy(scanned[p + 1].order_id)
           /\ scanned[p + 1].order_id # splits[k].order_id

\* ------------------------------------------------------------------------
\* The standalone splitter (src/singlePDF_MultiExtraction_PartyName.py)
\* ------------------------------------------------------------------------
\* extract_party_name: the line above the first line from index 1 on that
\* contains "M/s.", sanitized and stripped; None when that line is blank
extract_party_name(t) ==
    LET lines == split_nl(t)
        hits  == { i \in 1..(Len(lines) - 1) :
                     Contains(default_party_keyword, lines[i + 1]) }
        party_name == IF hits = {} THEN None ELSE strip(lines[Min(hits)])
    IN  IF Truthy(party_name)
        THEN strip(sanitize_filename(party_name))
        ELSE None

\* splits[key] = [rng]: an assignment in place of the append
dict_assign(d, key, rng) ==
    IF \E i \in 1..Len(d) : d[i].party = key
    THEN [i \in 1..Len(d) |->
            IF d[i].party = key THEN [d[i] EXCEPT !.ranges = << rng >>]
            ELSE d[i]]
    ELSE Append(d, [party |-> key, ranges |-> << rng >>])

\* splits[key].append(rng) on the defaultdict(list), kept as the sequence of
\* its items in insertion order
dict_append(d, key, rng) ==
    IF \E i \in 1..Len(d) : d[i].party = key
    THEN [i \in 1..Len(d) |->
            IF d[i].party = key THEN [d[i] EXCEPT !.ranges = Append(@, rng)]
            ELSE d[i]]
    ELSE Append(d, [party |-> key, ranges |-> << rng >>])

\* one iteration of the page loop of the standalone split_pdf_by_party_name
standalone_scan(st, pn, new_party_name) ==
    IF Truthy(new_party_name)
    THEN [st EXCEPT
            !.splits = IF Truthy(st.current_party)
                       THEN dict_append(@, st.current_party,
                                        << st.current_start_page, pn - 1 >>)
                       ELSE @,
            !.current_party = new_party_name,
            !.current_start_page = pn]
    ELSE st

\* "Add the last segment"
standalone_final(st, n) ==
    IF Truthy(st.current_party)
    THEN [st EXCEPT !.splits = dict_append(@, st.current_party,
                                           << st.current_start_page, n - 1 >>)]
    ELSE st

\* the pages save_split_pdfs inserts for one item of splits
RECURSIVE pages_of_ranges(_)
pages_of_ranges(ranges) ==
    IF ranges = << >>
    THEN << >>
    ELSE range(ranges[1][1], ranges[1][2]) \o pages_of_ranges(Tail(ranges))

InitStandalone ==
    /\ operation = "Standalone"
    /\ listing \in Listings
    /\ outDir \in InitialOutputs
    /\ pc = "sa_listdir"
    /\ file_idx = 0
    /\ messages = << >>
    /\ result = << >>
    /\ exc = NoException
    /\ log = << >>
    /\ openDocs = {}
    /\ num_pages = 0
    /\ page_num = 0
    /\ current_party = None
    /\ current_order_id = None
    /\ current_start_page = 0
    /\ splits = << >>
    /\ span_idx = 0
    /\ scanned = << >>
    /\ saves = << >>
    /\ text = << >>
    /\ InitWindow
    /\ fn_arg = << >>
    /\ fn_res = NotApplied

saUnused == << uiVars, fnVars, operation, listing, messages, result, log, current_order_id,
               text >>

\* process_pdf_directory passes an entry that is no .pdf file
sa_skip ==
    /\ pc = "sa_listdir"
    /\ file_idx < Len(listing)
    /\ ~is_pdf(filename)
    /\ file_idx' = file_idx + 1
    /\ UNCHANGED << saUnused, outDir, pc, exc, openDocs, segVars >>

\* split_pdf_by_party_name: fitz.open and the initialisation
sa_open ==
    /\ pc = "sa_listdir"
    /\ file_idx < Len(listing)
    /\ is_pdf(filename)
    /\ \E n \in 0..MaxPages : num_pages' = n
    /\ openDocs' = openDocs \cup {filename}
    /\ current_party' = None
    /\ current_start_page' = 0
    /\ splits' = << >>
    /\ page_num' = 0
    /\ span_idx' = 0
    /\ scanned' = << >>
    /\ saves' = << >>
    /\ pc' = "sa_scan"
    /\ UNCHANGED << saUnused, outDir, file_idx, exc >>

\* one page of the loop
sa_page ==
    /\ pc = "sa_scan"
    /\ page_num < num_pages
    /\ \E t \in PagesFor(operation) :
         LET new_party_name == extract_party_name(t)
             st == standalone_scan(SegState, page_num, new_party_name)
         IN  /\ current_party' = st.current_party
             /\ current_start_page' = st.current_start_page
             /\ splits' = st.splits
             /\ scanned' = Append(scanned, [text |-> t, fed |-> t,
                                            ocr_calls |-> 0,
                                            party |-> new_party_name,
                                            order_id |-> None])
    /\ page_num' = page_num + 1
    /\ UNCHANGED << saUnused, outDir, pc, file_idx, exc, openDocs, num_pages,
                    span_idx, saves >>

\* the loop is over: the last segment is added and splits, doc are returned
sa_scan_end ==
    /\ pc = "sa_scan"
    /\ page_num = num_pages
    /\ splits' = standalone_final(SegState, num_pages).splits
    /\ span_idx' = 0
    /\ pc' = "sa_save"
    /\ UNCHANGED << saUnused, outDir, file_idx, exc, openDocs, num_pages,
                    page_num, current_party, current_start_page, scanned,
                    saves >>

\* save_split_pdfs, one item of splits: one new_pdf with the pages of all
\* the ranges of the party, saved as "{party_name}.pdf"
sa_save ==
    /\ pc = "sa_save"
    /\ span_idx < Len(splits)
    /\ LET item == splits[span_idx + 1]
           name == item.party \o DotPdf
       IN  /\ saves' = Append(saves,
                              [span |-> span_idx,
                               pages |-> pages_of_ranges(item.ranges),
                               name |-> name, existed |-> name \in outDir,
                               ok |-> TRUE])
           /\ outDir' = outDir \cup {name}
    /\ span_idx' = span_idx + 1
    /\ UNCHANGED << saUnused, pc, file_idx, exc, openDocs, num_pages, page_num,
                    current_party, current_start_page, splits, scanned >>

\* save_split_pdfs returns; the document is not closed; next entry
sa_next ==
    /\ pc = "sa_save"
    /\ span_idx = Len(splits)
    /\ file_idx' = file_idx + 1
    /\ pc' = "sa_listdir"
    /\ UNCHANGED << saUnused, outDir, exc, openDocs, segVars >>

\* fitz.open, load_page, get_text or save raises: the script has no handler
\* and ends with the traceback
sa_raise ==
    /\ \/ pc = "sa_listdir" /\ file_idx < Len(listing) /\ is_pdf(filename)
       \/ pc = "sa_scan" /\ page_num < num_pages
       \/ pc = "sa_save" /\ span_idx < Len(splits)
    /\ exc' = [kind |-> pc, file |-> filename]
    /\ pc' = "sa_exit"
    /\ openDocs' = {}
    /\ UNCHANGED << saUnused, outDir, file_idx, segVars >>

\* the listing is exhausted: the script ends
sa_exit ==
    /\ pc = "sa_listdir"
    /\ file_idx = Len(listing)
    /\ pc' = "sa_exit"
    /\ openDocs' = {}
    /\ UNCHANGED << saUnused, outDir, file_idx, exc, segVars >>

NextStandalone ==
    \/ sa_skip
    \/ sa_open
    \/ sa_page
    \/ sa_scan_end
    \/ sa_save
    \/ sa_next
    \/ sa_raise
    \/ sa_exit

SpecStandalone == InitStandalone /\ [][NextStandalone]_vars

\* the spans the marker pages of the current document delimit: one from
\* each marker page to the page before the next marker page, or to the last
\* page, labelled with the party extracted from its first page
DetectedSpans ==
    { [start_page |-> m,
       end_page |-> IF \E q \in MarkerPages : q > m
                    THEN Min({ q \in MarkerPages : q > m }) - 1
                    ELSE num_pages - 1,
       party |-> scanned[m + 1].party] : m \in MarkerPages }

\* save_split_pdfs has saved every item of the current document
AllSaved == operation = "Standalone" /\ pc = "sa_save" /\ span_idx = Len(splits)

PagesOfParty(party) ==
    { p \in 0..(num_pages - 1) :
        \E d \in DetectedSpans :
          d.party = party /\ d.start_page <= p /\ p <= d.end_page }

RECURSIVE ConcatFed(_)
ConcatFed(pages) ==
    IF pages = << >> THEN << >> ELSE pages[1].fed \o ConcatFed(Tail(pages))

\* C12 (as claimed): an extraction error on one page does not end the batch
\* and counts as an empty page: in text extraction all pages are visited
\* and the text of the others is kept
C12_PageErrorIsEmptyPage ==
    /\ exc.kind # "page"
    /\ (operation = "Extract Text from PDF" /\ pc = "text_write"
           /\ num_pages > 0) =>
         /\ page_num = num_pages
         /\ text = ConcatFed(scanned)

\* C18: in text extraction OCR runs once for each page whose direct text is
\* empty or white space and never for another page, and the text is the
\* concatenation in page order of the direct or the recognised texts
C18_PerPageOcrDecision ==
    (operation = "Extract Text from PDF"
       /\ pc \in { "text_pages", "text_write" }
       /\ text # ErrorText(filename)) =>
      /\ \A p \in 1..Len(scanned) :
           IF strip(scanned[p].text) = << >>
           THEN scanned[p].ocr_calls = 1 /\ scanned[p].fed \in OcrTexts
           ELSE scanned[p].ocr_calls = 0 /\ scanned[p].fed = scanned[p].text
      /\ text = ConcatFed(scanned)

\* a document read to its end with a white-space page that was recognised
\* and a page with text that was not
C18_Witness ==
    /\ operation = "Extract Text from PDF"
    /\ pc = "text_write"
    /\ text # ErrorText(filename)
    /\ \E p, q \in 1..Len(scanned) :
         /\ scanned[p].text = PageSpace
         /\ scanned[p].ocr_calls = 1
         /\ scanned[p].fed # << >>
         /\ scanned[q].ocr_calls = 0

\* ------------------------------------------------------------------------
\* Documents without a marker
\* ------------------------------------------------------------------------
\* the splitter has just returned for the .pdf entry before the one the
\* driver is at
JustClosed ==
    /\ Segmenting
    /\ pc = "listdir"
    /\ file_idx > 0
    /\ is_pdf(listing[file_idx])

\* C14: a document none of whose pages carries a marker has no span and no
\* save, and the splitter returns its summary for the file, which the
\* driver appends to its messages; no exception is raised
C14_NoMarkerNoOutput ==
    /\ (SpansComputed /\ MarkerPages = {}) =>
         /\ splits = << >>
         /\ saves = << >>
    /\ (JustClosed /\ MarkerPages = {}) =>
         /\ Len(scanned) = num_pages
         /\ splits = << >>
         /\ saves = << >>
         /\ exc = NoException
         /\ messages # << >>
         /\ messages[Len(messages)] = processed_message(listing[file_idx])

\* a document of two or more pages, one of them with text, none with a
\* marker, has been processed
C14_Witness ==
    /\ JustClosed
    /\ MarkerPages = {}
    /\ num_pages >= 2
    /\ Len(scanned) = num_pages
    /\ \E p \in 1..Len(scanned) : strip(scanned[p].text) # << >>
    /\ messages # << >>
    /\ messages[Len(messages)] = processed_message(listing[file_idx])

\* a page text whose first line with the party keyword has a line at the
\* offset, and that line is empty or white space
BlankNamePage(t) ==
    LET lines == splitlines(t)
        kw == { i \in 1..Len(lines) : Contains(party_keyword, lines[i]) }
        target == Min(kw) + party_offset.value
    IN  /\ kw # {}
        /\ target \in 1..Len(lines)
        /\ strip(lines[target]) = << >>

\* page p (0-based) lies in a span
InSpan(p) ==
    \E k \in 1..Len(splits) :
      splits[k].start_page <= p /\ p <= splits[k].end_page

\* C19: a page with the party keyword and an empty or white-space line at
\* the offset gives the empty party name and opens no span: it lies in the
\* span opened by an earlier marker page, or in no span when no earlier
\* page carries a marker
C19_BlankNameOpensNoSpan ==
    SpansComputed =>
      \A p \in 1..Len(scanned) :
        BlankNamePage(scanned[p].text) =>
          /\ scanned[p].party = << >>
          /\ \A k \in 1..Len(splits) : splits[k].start_page # p - 1
          /\ InSpan(p - 1) <=> \E q \in 1..(p - 1) : IsMarker(scanned[q])

\* a document with such a page before the first marker page and another one
\* after it
C19_Witness ==
    /\ SpansComputed
    /\ \E p, q \in 1..Len(scanned) :
         /\ BlankNamePage(scanned[p].text)
         /\ BlankNamePage(scanned[q].text)
         /\ ~InSpan(p - 1)
         /\ InSpan(q - 1)

\* ------------------------------------------------------------------------
\* The pure functions, applied to inputs drawn at the start
\* ------------------------------------------------------------------------
\* the window is up and no run has been started
InitIdle ==
    /\ operation = "Split by Party Name"
    /\ listing = << >>
    /\ outDir = {}
    /\ pc = "idle"
    /\ file_idx = 0
    /\ messages = << >>
    /\ result = << >>
    /\ exc = NoException
    /\ log = << >>
    /\ openDocs = {}
    /\ num_pages = 0
    /\ page_num = 0
    /\ current_party = None
    /\ current_order_id = None
    /\ current_start_page = 0
    /\ splits = << >>
    /\ span_idx = 0
    /\ scanned = << >>
    /\ saves = << >>
    /\ text = << >>

runVars == << operation, listing, outDir, pc, file_idx, messages, result, exc,
              log, openDocs, segVars, text >>

\* the strings of at most n characters of A
Strings(A, n) == UNION { [1..k -> A] : k \in 0..n }

\* every character the sanitizers treat specially, and three they keep
SanitizeChars == InvalidChars \cup { "A", "_", "." }

InitSanitize ==
    /\ InitIdle
    /\ InitWindow
    /\ fn_arg \in Strings(SanitizeChars, MaxLen)
    /\ fn_res = NotApplied

\* sanitize_filename(x) and sanitize_filename(sanitize_filename(x))
apply_sanitize_filename ==
    /\ fn_res = NotApplied
    /\ fn_res' = [fn |-> "sanitize_filename",
                  once |-> sanitize_filename(fn_arg),
                  twice |-> sanitize_filename(sanitize_filename(fn_arg))]
    /\ UNCHANGED << runVars, uiVars, fn_arg >>

\* sanitize_name(x) and sanitize_name(sanitize_name(x))
apply_sanitize_name ==
    /\ fn_res = NotApplied
    /\ fn_res' = [fn |-> "sanitize_name",
                  once |-> sanitize_name(fn_arg),
                  twice |-> sanitize_name(sanitize_name(fn_arg))]
    /\ UNCHANGED << runVars, uiVars, fn_arg >>

NextSanitize ==
    \/ apply_sanitize_filename
    \/ apply_sanitize_name

SpecSanitize == InitSanitize /\ [][NextSanitize]_vars

\* C13: both sanitizers are idempotent and their output has none of the
\* characters < > : " / \ | ? *; sanitize_filename keeps exactly the other
\* characters, sanitize_name keeps the length
C13_SanitizeIdempotent ==
    fn_res.fn \in { "sanitize_filename", "sanitize_name" } =>
      /\ fn_res.twice = fn_res.once
      /\ \A i \in 1..Len(fn_res.once) : fn_res.once[i] \notin InvalidChars
      /\ fn_res.fn = "sanitize_filename" =>
           Len(fn_res.once) =
             Cardinality({ i \in 1..Len(fn_arg) : fn_arg[i] \notin InvalidChars })
      /\ fn_res.fn = "sanitize_name" => Len(fn_res.once) = Len(fn_arg)

\* sanitize_filename has been applied to a string of two or more characters
\* with an invalid character and a valid one
C13_Witness ==
    /\ fn_res.fn = "sanitize_filename"
    /\ Len(fn_arg) >= 2
    /\ \E i, j \in 1..Len(fn_arg) :
         fn_arg[i] \in InvalidChars /\ fn_arg[j] \notin InvalidChars
    /\ fn_res.once # fn_arg
    /\ fn_res.once # << >>

\* ------------------------------------------------------------------------
\* The field extractors on texts of a few lines
\* ------------------------------------------------------------------------
\* the lines the texts are made of: the party keyword, a name, an empty
\* line, the order keyword without and with an id, a colon, a line of other
\* punctuation, a line of digits
LineKinds ==
    { << "M", "/", "s", "." >>, << "B" >>, << >>, << "I", "D", " ", ":" >>,
      << "I", "D", " ", ":", "5" >>, << ":" >>, << "-", "-" >>, << "7" >> }

\* "\n".join(lines)
RECURSIVE join_nl(_)
join_nl(lines) ==
    IF lines = << >> THEN << >>
    ELSE IF Len(lines) = 1 THEN lines[1]
    ELSE lines[1] \o << "\n" >> \o join_nl(Tail(lines))

\* the texts of the Party Offset field: -1, 0 and 1
OffsetTexts == { default_party_offset, << "0" >>, << "1" >> }

InitExtract ==
    /\ InitIdle
    /\ current_profile = "Custom"
    /\ profile_combo = "Custom"
    /\ party_keyword_edit = default_party_keyword
    /\ party_offset_edit \in OffsetTexts
    /\ order_keyword_edit = default_order_keyword
    /\ order_regex_edit = default_order_regex
    /\ last_event = NoEvent
    /\ fn_arg \in { join_nl(ls) : ls \in Strings(LineKinds, MaxLines) }
    /\ fn_res = NotApplied

apply_extract_party_name ==
    /\ fn_res = NotApplied
    /\ fn_res' = [fn |-> "extract_party_name_dynamic",
                  value |-> extract_party_name_dynamic(fn_arg, party_keyword,
                                                       party_offset.value)]
    /\ UNCHANGED << runVars, uiVars, fn_arg >>

apply_extract_order_id ==
    /\ fn_res = NotApplied
    /\ fn_res' = [fn |-> "extract_order_id_dynamic",
                  value |-> extract_order_id_dynamic(fn_arg, order_keyword,
                                                     re_compile(order_regex))]
    /\ UNCHANGED << runVars, uiVars, fn_arg >>

NextExtract ==
    \/ apply_extract_party_name
    \/ apply_extract_order_id

SpecExtract == InitExtract /\ [][NextExtract]_vars

\* the lines of the argument and the indices (from 1) of those with the
\* party keyword, with the order keyword
ArgLines == splitlines(fn_arg)
PartyLines == { i \in 1..Len(ArgLines) : Contains(party_keyword, ArgLines[i]) }
OrderLines == { i \in 1..Len(ArgLines) : Contains(order_keyword, ArgLines[i]) }

\* the line an offset from line i, inside the text
TargetInRange(i) == i + party_offset.value \in 1..Len(ArgLines)

\* C15 (as claimed): only the first line with the keyword counts; the result
\* is the line at the offset from it, or None when that is outside the text
C15_FirstKeywordLineOnly ==
    fn_res.fn = "extract_party_name_dynamic" =>
      fn_res.value =
        IF PartyLines # {} /\ TargetInRange(Min(PartyLines))
        THEN strip(ArgLines[Min(PartyLines) + party_offset.value])
        ELSE None

\* C15 (amended): the result is the stripped line at the offset from the
\* first line with the keyword whose offset line is inside the text; it is
\* None exactly when no line with the keyword has its offset line inside
C15_FirstKeywordLineInRange ==
    fn_res.fn = "extract_party_name_dynamic" =>
      /\ fn_res.value = None <=>
           \A i \in PartyLines : ~TargetInRange(i)
      /\ fn_res.value # None =>
           \E i \in PartyLines :
             /\ TargetInRange(i)
             /\ \A h \in PartyLines : h < i => ~TargetInRange(h)
             /\ fn_res.value = strip(ArgLines[i + party_offset.value])

\* the first line with the keyword has its offset line outside the text and
\* a later one gives the name
C15_Witness ==
    /\ fn_res.fn = "extract_party_name_dynamic"
    /\ PartyLines # {}
    /\ ~TargetInRange(Min(PartyLines))
    /\ fn_res.value # None
    /\ fn_res.value # << >>

\* the characters of a line "consisting solely of punctuation"
PunctuationChars == InvalidChars \cup { "-", ".", ",", ";", "_", "!", "#" }

IsPunctuation(line) ==
    line # << >> /\ \A i \in 1..Len(line) : line[i] \in PunctuationChars

HasDigit(line) == \E i \in 1..Len(line) : line[i] \in Digits

\* the lines after line i whose stripped text is neither empty nor
\* punctuation only
Candidates(i) ==
    { j \in (i + 1)..Len(ArgLines) :
        strip(ArgLines[j]) # << >> /\ ~IsPunctuation(strip(ArgLines[j])) }

\* the lines after line i whose stripped text is neither empty nor ":"
CandidatesAsCoded(i) ==
    { j \in (i + 1)..Len(ArgLines) :
        strip(ArgLines[j]) # << >> /\ strip(ArgLines[j]) # << ":" >> }

\* the first line with the order keyword does not match the pattern
FirstOrderLineFails ==
    /\ OrderLines # {}
    /\ re_search(re_compile(order_regex), ArgLines[Min(OrderLines)]) = None

C17_PunctuationLinesSkipped ==
    (/\ fn_res.fn = "extract_order_id_dynamic"
     /\ FirstOrderLineFails
     /\ Candidates(Min(OrderLines)) # {}
     /\ HasDigit(ArgLines[Min(Candidates(Min(OrderLines)))]))
    => fn_res.value =
         re_search(DigitRun, strip(ArgLines[Min(Candidates(Min(OrderLines)))]))

\* ------------------------------------------------------------------------
\* The extraction profile and the four option fields
\* (src/businessTools.py:285-303, 405-448, 468-487)
\* ------------------------------------------------------------------------
\* the items of profile_combo
Profiles == { "Defaults", "Invoice Defaults", "Custom" }

\* self.extraction_profiles without the entry "Custom": None
extraction_profiles ==
    [p \in { "Defaults", "Invoice Defaults" } |->
       [party_keyword |-> default_party_keyword,
        party_offset |-> default_party_offset,
        order_keyword |-> IF p = "Defaults" THEN default_order_keyword
                          ELSE invoice_order_keyword,
        order_regex |-> IF p = "Defaults" THEN default_order_regex
                        ELSE invoice_order_regex]]

\* the texts of the four line edits
FieldsOf ==
    [party_keyword |-> party_keyword_edit, party_offset |-> party_offset_edit,
     order_keyword |-> order_keyword_edit, order_regex |-> order_regex_edit]

\* the texts a user types into a field
FieldTexts ==
    [party_keyword |-> { default_party_keyword, << "X" >> },
     party_offset |-> { default_party_offset, << "1" >> },
     order_keyword |-> { default_order_keyword, invoice_order_keyword },
     order_regex |-> { default_order_regex, invoice_order_regex }]

\* dynamic_fields_modified comparing the two party fields only
dynamic_fields_modified_party_only(profile, fields) ==
    IF profile # "Custom"
       /\ (\/ fields.party_keyword # extraction_profiles[profile].party_keyword
           \/ fields.party_offset # extraction_profiles[profile].party_offset)
    THEN "Custom"
    ELSE profile

\* dynamic_fields_modified: the profile after the slot has run
dynamic_fields_modified(profile, fields) ==
    IF profile # "Custom"
       /\ (\/ fields.party_keyword # extraction_profiles[profile].party_keyword
           \/ fields.party_offset # extraction_profiles[profile].party_offset
           \/ fields.order_keyword # extraction_profiles[profile].order_keyword
           \/ fields.order_regex # extraction_profiles[profile].order_regex)
    THEN "Custom"
    ELSE profile

\* log_message
log_message(kind, profile) ==
    Append(log, [kind |-> kind, file |-> << >>, profile |-> profile])

\* setText of the four fields to the values of a profile, signals blocked
set_fields(defaults) ==
    /\ party_keyword_edit' = defaults.party_keyword
    /\ party_offset_edit' = defaults.party_offset
    /\ order_keyword_edit' = defaults.order_keyword
    /\ order_regex_edit' = defaults.order_regex

uiIdle == << operation, listing, outDir, pc, file_idx, messages, result, exc,
             openDocs, segVars, text, fnVars >>

\* the user picks another item of profile_combo: currentIndexChanged runs
\* profile_changed
profile_changed ==
    /\ Len(log) < MaxLog
    /\ \E profile \in Profiles \ { profile_combo } :
         /\ profile_combo' = profile
         /\ current_profile' = profile
         /\ IF profile # "Custom"
            THEN /\ set_fields(extraction_profiles[profile])
                 /\ log' = log_message("Profile changed. Extraction options set to default values.", profile)
            ELSE /\ UNCHANGED << party_keyword_edit, party_offset_edit,
                                 order_keyword_edit, order_regex_edit >>
                 /\ log' = log_message("Profile changed to 'Custom'.", profile)
         /\ last_event' = [kind |-> "select", profile |-> profile]
    /\ UNCHANGED uiIdle

\* the user changes the text of one of the four fields: textChanged runs
\* dynamic_fields_modified with the new text in the field
field_edited ==
    /\ Len(log) < MaxLog
    /\ \E f \in DOMAIN FieldTexts :
         \E v \in FieldTexts[f] \ { FieldsOf[f] } :
           LET fields == [FieldsOf EXCEPT ![f] = v]
               profile == dynamic_fields_modified(current_profile, fields)
           IN  /\ party_keyword_edit' = fields.party_keyword
               /\ party_offset_edit' = fields.party_offset
               /\ order_keyword_edit' = fields.order_keyword
               /\ order_regex_edit' = fields.order_regex
               /\ current_profile' = profile
               /\ IF profile # current_profile
                  THEN /\ profile_combo' = "Custom"
                       /\ log' = log_message("Extraction fields modified. Profile switched to 'Custom'.", profile)
                  ELSE UNCHANGED << profile_combo, log >>
               /\ last_event' = [kind |-> "edit", field |-> f, value |-> v,
                                 before |-> current_profile]
    /\ UNCHANGED uiIdle

\* the reset button
reset_extraction_options ==
    /\ Len(log) < MaxLog
    /\ IF profile_combo # "Custom"
       THEN /\ set_fields(extraction_profiles[profile_combo])
            /\ log' = log_message("Extraction options reset to defaults.",
                                  profile_combo)
       ELSE /\ UNCHANGED << party_keyword_edit, party_offset_edit,
                            order_keyword_edit, order_regex_edit >>
            /\ log' = log_message("Custom extraction options remain unchanged.",
                                  profile_combo)
    /\ last_event' = [kind |-> "reset", before |-> current_profile]
    /\ UNCHANGED << uiIdle, current_profile, profile_combo >>

InitUI ==
    /\ InitIdle
    /\ InitWindow
    /\ fn_arg = << >>
    /\ fn_res = NotApplied

NextUI ==
    \/ profile_changed
    \/ field_edited
    \/ reset_extraction_options

SpecUI == InitUI /\ [][NextUI]_vars

\* C20: current_profile is the profile the selector shows; under a profile
\* other than "Custom" the four fields have the values of the profile; the
\* text of an edit stays in its field, and an edit that differs from the
\* value of the profile in force switches to "Custom"
C20_ProfileConsistent ==
    /\ current_profile = profile_combo
    /\ current_profile # "Custom" =>
         FieldsOf = extraction_profiles[current_profile]
    /\ last_event.kind = "edit" =>
         /\ FieldsOf[last_event.field] = last_event.value
         /\ (/\ last_event.before # "Custom"
             /\ last_event.value #
                  extraction_profiles[last_event.before][last_event.field])
            => current_profile = "Custom"

\* "Invoice Defaults" was selected and then an order field was edited
C20_Witness ==
    /\ last_event.kind = "edit"
    /\ last_event.before = "Invoice Defaults"
    /\ last_event.field \in { "order_keyword", "order_regex" }
    /\ current_profile = "Custom"
    /\ party_keyword_edit = default_party_keyword
    /\ Len(log) >= 2

====
